---------------------------- MODULE Spec2Model ----------------------------
(***************************************************************************)
(* State-machine model of the account / API-key backend in src/main.py.   *)
(*                                                                         *)
(* The store holds two collections, "user" and "apikey".  Every endpoint   *)
(* is a request handled by a worker thread; a handler is a sequence of     *)
(* store calls (find_one, insert_one, update_one, count_documents,         *)
(* aggregate), each atomic on its own, and requests of different threads   *)
(* interleave between store calls.  One action of the model is one store   *)
(* call together with the handler code that runs up to the next call.  A   *)
(* request enters the model at its first store call, which draws its       *)
(* inputs; the step that ends a request puts its response in `out`, and    *)
(* the next step (Deliver) sends it off.                                   *)
(*                                                                         *)
(* Idealisations: secrets.token_urlsafe / the "nex_" key generator return  *)
(* a value never returned before (a counter); SHA-256 is collision free    *)
(* (an injective recoding of its input to hex characters); within one      *)
(* step datetime.now() is read once.                                       *)
(***************************************************************************)
EXTENDS Integers, Sequences, FiniteSets, TLC

\* ------------------------------------------------------------------ bounds
NumThreads == 2      \* worker threads serving requests concurrently
MaxUsers == 2        \* register requests admitted in total
MaxTokens == 2       \* successful logins admitted in total
MaxKeys == 2         \* create_api_key requests admitted in total
MaxUsage == 2        \* use requests admitted in total
MaxClock == 1        \* ticks of the wall clock

Threads == 1..NumThreads

\* ------------------------------------------------------------------ inputs
Usernames == {"alice", "bob"}
Emails == {"a@x.com", "b@x.com"}
Pw1 == <<"a", "b", "a", "b", "a", "b">>
Pw2 == <<"a", "$", "b", "a", "b", "a">>
Passwords == {Pw1, Pw2}
RegPasswords == {Pw1}
Salts == {<<"0", "a">>}
\* labels a client may send with create_api_key: a name, and the empty string
Labels == {"ci", ""}
\* RegisterRequest.password: min_length
MinPwLen == 6
\* passwords of the least length over two characters, one of them the
\* separator of the stored hash
HashPasswords == {Pw1, Pw2} \cup [1..MinPwLen -> {"a", "$"}]
\* what a login may send: those, each one character short, and each one
\* character long
HashCandidates ==
    HashPasswords
    \cup {SubSeq(p, 1, MinPwLen - 1) : p \in HashPasswords}
    \cup {p \o <<"a">> : p \in HashPasswords}
\* secrets.token_hex: hex characters only
HashSalts == {<<"0", "a">>, <<"a", "b">>}
None == "None"

VARIABLES users, apikeys, now, nextToken, nextKey, req, out

vars == <<users, apikeys, now, nextToken, nextKey, req, out>>

\* --------------------------------------------------------- small helpers
Range(s) == {s[i] : i \in DOMAIN s}

Remove(s, x) == SelectSeq(s, LAMBDA y : y # x)

RECURSIVE SumSeq(_)
SumSeq(s) == IF s = <<>> THEN 0 ELSE Head(s) + SumSeq(Tail(s))

\* --------------------------------------------------------- identifiers
\* bson ObjectId and its str() form, kept apart as the code keeps them.
ObjectId(s) == [oid |-> s.hex]
Str(o) == [hex |-> o.oid]

\* secrets.token_urlsafe(32): the n-th token handed out.
TokenStr(n) == <<"tok", n>>
\* "nex_" + secrets.token_urlsafe(24): the n-th key handed out.
ApiKeyStr(n) == <<"nex_", n>>

\* --------------------------------------------------------- password hasher
HexChar(c) == IF c = "$" THEN "4" ELSE c

\* Mutant: the digest keeps the characters of its input, "$" included.
Sha256HexRaw(s) == s

\* hashlib.sha256(x).hexdigest(), collision free, over hex characters only.
Sha256Hex(s) == [i \in 1..Len(s) |-> HexChar(s[i])]

hash_password(password, salt) == salt \o <<"$">> \o Sha256Hex(salt \o password)

RECURSIVE Split(_, _)
\* str.split(sep) for a one-character separator: the list of pieces.
Split(s, sep) ==
    IF \A i \in DOMAIN s : s[i] # sep THEN <<s>>
    ELSE LET k == CHOOSE i \in DOMAIN s : s[i] = sep /\ \A j \in 1..(i-1) : s[j] # sep
         IN <<SubSeq(s, 1, k-1)>> \o Split(SubSeq(s, k+1, Len(s)), sep)

\* Mutant: only the shape of the stored hash is checked.
verify_passwordShapeOnly(password, stored_hash) == Len(Split(stored_hash, "$")) = 2

verify_password(password, stored_hash) ==
    LET parts == Split(stored_hash, "$")
    IN IF Len(parts) # 2 THEN FALSE
       ELSE hash_password(password, parts[1]) = stored_hash

\* --------------------------------------------------------- responses
Ok(body) == [status |-> 200, detail |-> "", body |-> body]
HTTPException(status_code, detail) == [status |-> status_code, detail |-> detail, body |-> <<>>]

NoResp == [status |-> 0, detail |-> "", body |-> <<>>]
NoUser == [id |-> None, username |-> None, email |-> None]
NoArgs == [username |-> None, email |-> None, password |-> None, key |-> None]
NoHeader == [scheme |-> None, cred |-> None]

\* A thread's request: the endpoint, the position in its handler, the
\* inputs, and the handler's locals that its later code reads (the user
\* require_auth or find_one returned, the api key document found, the key
\* count).  stale: another request wrote a username or an email to the user
\* collection after this request's first uniqueness check; seen: the key
\* count and usage sum of a stats request's caller in the latest state of
\* the store, since the request's count query, in which the caller has as
\* many keys as at that query (both history only, read by no handler).
Idle == [op |-> "idle", pc |-> "done", auth |-> NoHeader, args |-> NoArgs,
         user |-> NoUser, doc |-> None, total_keys |-> 0, stale |-> FALSE,
         seen |-> [total_keys |-> 0, total_usage |-> 0], resp |-> NoResp]

NewReq(op, auth, args) ==
    [Idle EXCEPT !.op = op, !.pc = "start", !.auth = auth, !.args = args]

\* The handler returns or raises.
Finish(r, resp) == [r EXCEPT !.pc = "done", !.resp = resp]

Free(t) == req[t].pc = "done"

\* The response a step sends: the request it answers and the answer.
NoOut == [thread |-> 0, op |-> "idle", auth |-> NoHeader, args |-> NoArgs,
          user |-> NoUser, doc |-> None, stale |-> FALSE, resp |-> NoResp]

\* No response is waiting to leave the server.
Ready == out = NoOut

\* Thread t's request is now r, in the thread table rq: a finished request
\* is answered and leaves its thread free.
Step(rq, t, r) ==
    IF r.pc = "done"
    THEN /\ req' = [rq EXCEPT ![t] = Idle]
         /\ out' = [thread |-> t, op |-> r.op, auth |-> r.auth, args |-> r.args,
                    user |-> r.user, doc |-> r.doc, stale |-> r.stale, resp |-> r.resp]
    ELSE /\ req' = [rq EXCEPT ![t] = r]
         /\ out' = NoOut

\* --------------------------------------------------------- store queries
UserIds == DOMAIN users
KeyIds == DOMAIN apikeys

\* db["user"].find({"$or": [{"email": e}, {"username": u}]})
UsersByEmailOrUsername(e, u) ==
    {i \in UserIds : users[i].email = e \/ users[i].username = u}

\* db["user"].find({"email": e})
UsersByEmail(e) == {i \in UserIds : users[i].email = e}

\* db["user"].find({"active_tokens": token})
UsersByToken(token) == {i \in UserIds : token \in Range(users[i].active_tokens)}

\* Mutant: the username check of update_me is missing.
OthersByUsernameUnchecked(u, oid) == {}

\* db["user"].find({"username": u, "_id": {"$ne": oid}})
OthersByUsername(u, oid) ==
    {i \in UserIds : users[i].username = u /\ users[i]._id # oid}

\* db["user"].find({"email": e, "_id": {"$ne": oid}})
OthersByEmail(e, oid) ==
    {i \in UserIds : users[i].email = e /\ users[i]._id # oid}

\* Mutant: the lookup matches on the "nex_" prefix alone.
KeysByKeyPrefix(key) == {i \in KeyIds : apikeys[i].key[1] = key[1]}

\* Mutant: a key is found only while its owner holds an active token.
KeysByKeyOfSignedIn(key) ==
    {i \in KeyIds : /\ apikeys[i].key = key
                    /\ \E u \in UserIds : /\ Str(users[u]._id) = apikeys[i].user_id
                                          /\ users[u].active_tokens # <<>>}

\* db["apikey"].find({"key": key})
KeysByKey(key) == {i \in KeyIds : apikeys[i].key = key}

InFlight(op) == Cardinality({t \in Threads : req[t].op = op})

\* Thread u's request has made a uniqueness check and not yet its write.
InWindow(r) ==
    \/ r.op = "register" /\ r.pc = "insert_user"
    \/ r.op = "update_me" /\ r.pc = "set"
    \/ r.op = "update_me" /\ r.pc = "chk_email" /\ r.args.username # None

\* Thread t writes a username or an email: the write falls inside the
\* check-to-write window of every other request that is in one.
MarkStale(rq, t) ==
    [u \in Threads |->
        IF u # t /\ InWindow(rq[u]) THEN [rq[u] EXCEPT !.stale = TRUE] ELSE rq[u]]

\* --------------------------------------------------------- initial state
Init ==
    /\ users = <<>>
    /\ apikeys = <<>>
    /\ now = 0
    /\ nextToken = 1
    /\ nextKey = 1
    /\ req = [t \in Threads |-> Idle]
    /\ out = NoOut

\* datetime.now(timezone.utc) moves on between steps.
Tick ==
    /\ Ready
    /\ now < MaxClock
    /\ now' = now + 1
    /\ out' = NoOut
    /\ UNCHANGED <<users, apikeys, nextToken, nextKey, req>>

\* The response leaves the server.
Deliver ==
    /\ ~Ready
    /\ out' = NoOut
    /\ UNCHANGED <<users, apikeys, now, nextToken, nextKey, req>>

\* --------------------------------------------------------- register
\* Mutant: the existence query looks at the email alone.
RegisterConflictEmailOnly(e, u) == UsersByEmail(e) # {}

RegisterConflict(e, u) == UsersByEmailOrUsername(e, u) # {}

\* main.py 100-101: the combined existence query.
RegisterCheck(t) ==
    /\ Ready
    /\ Free(t)
    /\ Len(users) + InFlight("register") < MaxUsers
    /\ \E u \in Usernames, e \in Emails, p \in RegPasswords :
         LET r == NewReq("register", NoHeader,
                         [NoArgs EXCEPT !.username = u, !.email = e, !.password = p])
         IN IF RegisterConflict(e, u)
            THEN Step(req, t, Finish(r, HTTPException(400, "Username or email already exists")))
            ELSE Step(req, t, [r EXCEPT !.pc = "insert_user"])
    /\ UNCHANGED <<users, apikeys, now, nextToken, nextKey>>

NewUserDoc(id, username, email, password, salt) ==
    [_id |-> ObjectId([hex |-> id]),
     username |-> username,
     email |-> email,
     password_hash |-> hash_password(password, salt),
     active_tokens |-> <<>>,
     created_at |-> now,
     updated_at |-> now]

\* Mutant: the collection has unique indexes on username and email, and the
\* insert of a duplicate is refused.
RegisterInsertUnique(t) ==
    /\ Ready
    /\ req[t].op = "register" /\ req[t].pc = "insert_user"
    /\ \E salt \in Salts :
         LET id == Len(users) + 1
             a == req[t].args
         IN IF RegisterConflict(a.email, a.username)
            THEN /\ users' = users
                 /\ Step(req, t, Finish(req[t],
                        HTTPException(400, "Username or email already exists")))
            ELSE /\ users' = Append(users, NewUserDoc(id, a.username, a.email, a.password, salt))
                 /\ Step(MarkStale(req, t), t,
                         Finish(req[t], Ok([id |-> [hex |-> id], username |-> a.username,
                                            email |-> a.email])))
    /\ UNCHANGED <<apikeys, now, nextToken, nextKey>>

\* main.py 103-114: hash with a fresh salt, insert, answer.
RegisterInsert(t) ==
    /\ Ready
    /\ req[t].op = "register" /\ req[t].pc = "insert_user"
    /\ \E salt \in Salts :
         LET id == Len(users) + 1
             a == req[t].args
         IN /\ users' = Append(users, NewUserDoc(id, a.username, a.email, a.password, salt))
            /\ Step(MarkStale(req, t), t, Finish(req[t], Ok([id |-> [hex |-> id], username |-> a.username,
                                             email |-> a.email])))
    /\ UNCHANGED <<apikeys, now, nextToken, nextKey>>

\* --------------------------------------------------------- login
\* main.py 119-121: find_one by email (any matching document), verify; the
\* request's password is one of P.
LoginFindOf(t, P) ==
    /\ Ready
    /\ Free(t)
    /\ nextToken + InFlight("login") <= MaxTokens
    /\ \E e \in Emails, p \in P :
         LET r == NewReq("login", NoHeader, [NoArgs EXCEPT !.email = e, !.password = p])
             denied == Finish(r, HTTPException(401, "Invalid credentials"))
         IN \/ /\ UsersByEmail(e) = {}
               /\ Step(req, t, denied)
            \/ \E i \in UsersByEmail(e) :
                 IF ~verify_password(p, users[i].password_hash)
                 THEN Step(req, t, denied)
                 ELSE Step(req, t, [r EXCEPT !.pc = "push",
                                           !.user = [id |-> users[i]._id,
                                                     username |-> users[i].username,
                                                     email |-> users[i].email]])
    /\ UNCHANGED <<users, apikeys, now, nextToken, nextKey>>

LoginFind(t) == LoginFindOf(t, Passwords)

\* Mutant: the login replaces the token list ($set) instead of pushing.
PushTokenReplacing(us, oid, token) ==
    [i \in DOMAIN us |->
        IF us[i]._id = oid
        THEN [us[i] EXCEPT !.active_tokens = <<token>>, !.updated_at = now]
        ELSE us[i]]

\* update_one({"_id": oid}, {"$push": {"active_tokens": token},
\*                           "$set": {"updated_at": now}})
PushToken(us, oid, token) ==
    [i \in DOMAIN us |->
        IF us[i]._id = oid
        THEN [us[i] EXCEPT !.active_tokens = Append(@, token), !.updated_at = now]
        ELSE us[i]]

\* main.py 122-128: a new token, pushed onto the user's active_tokens.
LoginPush(t) ==
    /\ Ready
    /\ req[t].op = "login" /\ req[t].pc = "push"
    /\ LET token == TokenStr(nextToken)
       IN /\ users' = PushToken(users, req[t].user.id, token)
          /\ Step(req, t, Finish(req[t], Ok([token |-> token,
                                           id |-> Str(req[t].user.id),
                                           username |-> req[t].user.username,
                                           email |-> req[t].user.email])))
    /\ nextToken' = nextToken + 1
    /\ UNCHANGED <<apikeys, now, nextKey>>

\* --------------------------------------------------------- require_auth
\* Authorization headers a client may send: none, a non-Bearer scheme, and
\* "Bearer <token>" for issued, revoked and never-issued tokens.
AuthHeaders ==
    {NoHeader, [scheme |-> "Basic", cred |-> TokenStr(1)]}
    \cup {[scheme |-> "Bearer", cred |-> TokenStr(n)] : n \in 1..MaxTokens}

\* main.py 45: the header is missing or does not start with "Bearer ".
BadHeader(h) == h = NoHeader \/ h.scheme # "Bearer"

\* main.py 47: authorization.split(" ", 1)[1]
BearerToken(h) == h.cred

\* The user document as require_auth returns it (main.py 51-52): _id as str.
AuthUser(i) == [id |-> Str(users[i]._id),
                username |-> users[i].username,
                email |-> users[i].email]

\* The part of the user document a handler goes on to read when it reads
\* only user["_id"].
IdOnly(user) == [user EXCEPT !.username = None, !.email = None]

\* main.py 44-52: what require_auth can do with an Authorization header:
\* raise 401 (resp), or return a user document holding the token (user).
require_auth(authorization) ==
    IF BadHeader(authorization)
    THEN {[user |-> NoUser, resp |-> HTTPException(401, "Unauthorized")]}
    ELSE IF UsersByToken(BearerToken(authorization)) = {}
    THEN {[user |-> NoUser, resp |-> HTTPException(401, "Invalid token")]}
    ELSE {[user |-> AuthUser(i), resp |-> NoResp] :
             i \in UsersByToken(BearerToken(authorization))}

\* require_auth runs before the handler of an authenticated endpoint: when
\* it raises, the 401 is the answer and the handler never runs; otherwise
\* thread t's request becomes r, the handler's state at its next store call.
Authenticated(t, authorization, a, r) ==
    IF a.resp # NoResp
    THEN Step(req, t, Finish(NewReq("require_auth", authorization, NoArgs), a.resp))
    ELSE Step(req, t, r)

\* --------------------------------------------------------- logout
LogoutAuth(t) ==
    /\ Ready
    /\ Free(t)
    /\ \E h \in AuthHeaders : \E a \in require_auth(h) :
         Authenticated(t, h, a, [NewReq("logout", h, NoArgs) EXCEPT
                                    !.pc = "pull", !.user = IdOnly(a.user)])
    /\ UNCHANGED <<users, apikeys, now, nextToken, nextKey>>

\* Mutant: the logout pops the newest token ($pop) whatever token was sent.
PullTokenPopLast(us, oid, token) ==
    [i \in DOMAIN us |->
        IF us[i]._id = oid /\ us[i].active_tokens # <<>>
        THEN [us[i] EXCEPT !.active_tokens = SubSeq(@, 1, Len(@) - 1)]
        ELSE us[i]]

\* update_one({"_id": oid}, {"$pull": {"active_tokens": token}})
PullToken(us, oid, token) ==
    [i \in DOMAIN us |->
        IF us[i]._id = oid
        THEN [us[i] EXCEPT !.active_tokens = Remove(@, token)]
        ELSE us[i]]

\* Mutant: a logout whose token is no longer in the list is refused.
LogoutPullStrict(t) ==
    /\ Ready
    /\ req[t].op = "logout" /\ req[t].pc = "pull"
    /\ IF UsersByToken(BearerToken(req[t].auth)) = {}
       THEN /\ users' = users
            /\ Step(req, t, Finish(req[t], HTTPException(401, "Invalid token")))
       ELSE /\ users' = PullToken(users, ObjectId(req[t].user.id), BearerToken(req[t].auth))
            /\ Step(req, t, Finish(req[t], Ok(<<>>)))
    /\ UNCHANGED <<apikeys, now, nextToken, nextKey>>

\* main.py 133-135
LogoutPull(t) ==
    /\ Ready
    /\ req[t].op = "logout" /\ req[t].pc = "pull"
    /\ users' = PullToken(users, ObjectId(req[t].user.id), BearerToken(req[t].auth))
    /\ Step(req, t, Finish(req[t], Ok(<<>>)))
    /\ UNCHANGED <<apikeys, now, nextToken, nextKey>>

\* --------------------------------------------------------- GET /me
\* main.py 142-144: require_auth, then the profile of the user it returned.
Me(t) ==
    /\ Ready
    /\ Free(t)
    /\ \E h \in AuthHeaders : \E a \in require_auth(h) :
         Authenticated(t, h, a,
             Finish(NewReq("me", h, NoArgs),
                    Ok([id |-> a.user.id, username |-> a.user.username,
                        email |-> a.user.email])))
    /\ UNCHANGED <<users, apikeys, now, nextToken, nextKey>>

\* --------------------------------------------------------- PATCH /me
\* main.py 150 / 155 / 191: `if payload.username:`, `if payload.email:`,
\* `payload.username or ...`: the value is neither None nor the empty string.
Supplied(v) == v # None /\ v # ""

\* The handler's position after require_auth and after the username check:
\* the next store call, or the answer of main.py 159-160.
AfterAuth(r, user) ==
    IF Supplied(r.args.username) THEN [r EXCEPT !.pc = "chk_username", !.user = IdOnly(user)]
    ELSE IF Supplied(r.args.email) THEN [r EXCEPT !.pc = "chk_email", !.user = IdOnly(user)]
    ELSE Finish([r EXCEPT !.user = IdOnly(user)], Ok(<<>>))

UpdateAuth(t) ==
    /\ Ready
    /\ Free(t)
    /\ \E h \in AuthHeaders, u \in Usernames \cup {None}, e \in Emails \cup {None} :
         \E a \in require_auth(h) :
           Authenticated(t, h, a,
               AfterAuth(NewReq("update_me", h, [NoArgs EXCEPT !.username = u, !.email = e]),
                         a.user))
    /\ UNCHANGED <<users, apikeys, now, nextToken, nextKey>>

\* Mutant: a username that passes its check is written at once, before the
\* email is checked.
UpdateCheckUsernameApplying(t) ==
    /\ Ready
    /\ req[t].op = "update_me" /\ req[t].pc = "chk_username"
    /\ IF OthersByUsername(req[t].args.username, ObjectId(req[t].user.id)) # {}
       THEN /\ users' = users
            /\ Step(req, t, Finish(req[t], HTTPException(400, "Username already taken")))
       ELSE /\ users' = [i \in DOMAIN users |->
                           IF users[i]._id = ObjectId(req[t].user.id)
                           THEN [users[i] EXCEPT !.username = req[t].args.username]
                           ELSE users[i]]
            /\ Step(req, t, [req[t] EXCEPT !.pc =
                       IF req[t].args.email # None THEN "chk_email" ELSE "set"])
    /\ UNCHANGED <<apikeys, now, nextToken, nextKey>>

\* main.py 152-154
UpdateCheckUsername(t) ==
    /\ Ready
    /\ req[t].op = "update_me" /\ req[t].pc = "chk_username"
    /\ IF OthersByUsername(req[t].args.username, ObjectId(req[t].user.id)) # {}
       THEN Step(req, t, Finish(req[t], HTTPException(400, "Username already taken")))
       ELSE Step(req, t, [req[t] EXCEPT !.pc =
                       IF Supplied(req[t].args.email) THEN "chk_email" ELSE "set"])
    /\ UNCHANGED <<users, apikeys, now, nextToken, nextKey>>

\* main.py 156-158
UpdateCheckEmail(t) ==
    /\ Ready
    /\ req[t].op = "update_me" /\ req[t].pc = "chk_email"
    /\ IF OthersByEmail(req[t].args.email, ObjectId(req[t].user.id)) # {}
       THEN Step(req, t, Finish(req[t], HTTPException(400, "Email already taken")))
       ELSE Step(req, t, [req[t] EXCEPT !.pc = "set"])
    /\ UNCHANGED <<users, apikeys, now, nextToken, nextKey>>

\* Mutant: every payload field is written, supplied or not.
SetProfileAllFields(us, oid, username, email) ==
    [i \in DOMAIN us |->
        IF us[i]._id = oid
        THEN [us[i] EXCEPT !.username = username, !.email = email, !.updated_at = now]
        ELSE us[i]]

\* Mutant: updated_at is left out of the update.
SetProfileNoTimestamp(us, oid, username, email) ==
    [i \in DOMAIN us |->
        IF us[i]._id = oid
        THEN [us[i] EXCEPT
                 !.username = IF username # None THEN username ELSE @,
                 !.email = IF email # None THEN email ELSE @]
        ELSE us[i]]

\* Mutant: changing the profile signs the user out everywhere.
SetProfileClearingTokens(us, oid, username, email) ==
    [i \in DOMAIN us |->
        IF us[i]._id = oid
        THEN [us[i] EXCEPT
                 !.username = IF username # None THEN username ELSE @,
                 !.email = IF email # None THEN email ELSE @,
                 !.active_tokens = <<>>,
                 !.updated_at = now]
        ELSE us[i]]

\* update_one({"_id": oid}, {"$set": updates}), updates built at main.py
\* 149-161: the supplied fields and updated_at.
SetProfile(us, oid, username, email) ==
    [i \in DOMAIN us |->
        IF us[i]._id = oid
        THEN [us[i] EXCEPT
                 !.username = IF Supplied(username) THEN username ELSE @,
                 !.email = IF Supplied(email) THEN email ELSE @,
                 !.updated_at = now]
        ELSE us[i]]

\* main.py 161-163
UpdateSet(t) ==
    /\ Ready
    /\ req[t].op = "update_me" /\ req[t].pc = "set"
    /\ users' = SetProfile(users, ObjectId(req[t].user.id),
                           req[t].args.username, req[t].args.email)
    /\ Step(MarkStale(req, t), t, Finish(req[t], Ok(<<>>)))
    /\ UNCHANGED <<apikeys, now, nextToken, nextKey>>

\* --------------------------------------------------------- API keys
\* The indexes of the keys of collection ks owned by the user with id uid.
OwnedBy(ks, uid) == {i \in DOMAIN ks : ks[i].user_id = uid}

RECURSIVE UsageOver(_, _)
\* The sum of usage_count over the keys of ks with indexes in I.
UsageOver(ks, I) ==
    IF I = {} THEN 0
    ELSE LET i == CHOOSE j \in I : TRUE
         IN ks[i].usage_count + UsageOver(ks, I \ {i})

\* The key count and the usage sum of the user with id uid in collection ks.
Totals(ks, uid) ==
    [total_keys |-> Cardinality(OwnedBy(ks, uid)),
     total_usage |-> UsageOver(ks, OwnedBy(ks, uid))]

\* The api key collection becomes ks: a stats request that is between its
\* count query and its aggregation has now seen its caller's totals in ks,
\* when the caller still has as many keys as at the count query.
Observe(rq, ks) ==
    [u \in Threads |->
        IF /\ rq[u].op = "stats" /\ rq[u].pc = "agg"
           /\ Totals(ks, rq[u].user.id).total_keys = rq[u].seen.total_keys
        THEN [rq[u] EXCEPT !.seen = Totals(ks, rq[u].user.id)]
        ELSE rq[u]]

CreateKeyAuth(t) ==
    /\ Ready
    /\ Free(t)
    /\ Len(apikeys) + InFlight("create_api_key") < MaxKeys
    /\ \E h \in AuthHeaders, l \in Labels \cup {None} : \E a \in require_auth(h) :
         Authenticated(t, h, a,
             [NewReq("create_api_key", h, [NoArgs EXCEPT !.username = l]) EXCEPT
                 !.pc = "insert_key", !.user = [a.user EXCEPT !.email = None]])
    /\ UNCHANGED <<users, apikeys, now, nextToken, nextKey>>

\* Mutant: the creation of a key is counted as its first use.
NewKeyDocCountingCreation(id, user, label, api_key) ==
    [_id |-> ObjectId([hex |-> id]),
     user_id |-> user.id,
     label |-> IF Supplied(label) THEN label ELSE user.username,
     key |-> api_key,
     usage_count |-> 1,
     created_at |-> now,
     updated_at |-> now]

\* Mutant: the payload's label is ignored, the key is named after its owner.
NewKeyDocIgnoringLabel(id, user, label, api_key) ==
    [_id |-> ObjectId([hex |-> id]),
     user_id |-> user.id,
     label |-> user.username,
     key |-> api_key,
     usage_count |-> 0,
     created_at |-> now,
     updated_at |-> now]

\* main.py 189-196
NewKeyDoc(id, user, label, api_key) ==
    [_id |-> ObjectId([hex |-> id]),
     user_id |-> user.id,
     label |-> IF Supplied(label) THEN label ELSE user.username,
     key |-> api_key,
     usage_count |-> 0,
     created_at |-> now,
     updated_at |-> now]

\* main.py 188-198
CreateKeyInsert(t) ==
    /\ Ready
    /\ req[t].op = "create_api_key" /\ req[t].pc = "insert_key"
    /\ LET id == Len(apikeys) + 1
           api_key == ApiKeyStr(nextKey)
           new == Append(apikeys, NewKeyDoc(id, req[t].user, req[t].args.username, api_key))
       IN /\ apikeys' = new
          /\ Step(Observe(req, new), t,
                  Finish(req[t], Ok([key |-> api_key, id |-> [hex |-> id]])))
    /\ nextKey' = nextKey + 1
    /\ UNCHANGED <<users, now, nextToken>>

\* Key strings a client may present: every key that can be handed out, and
\* a string that is no key.
KeyStrings == {ApiKeyStr(n) : n \in 1..MaxKeys} \cup {<<"nex_", 0>>}

UsageTotal == SumSeq([i \in DOMAIN apikeys |-> apikeys[i].usage_count])

\* main.py 204-206: the document found, as read at this moment.
UseFind(t) ==
    /\ Ready
    /\ Free(t)
    /\ UsageTotal + InFlight("use") < MaxUsage
    /\ \E k \in KeyStrings :
         LET r == NewReq("use", NoHeader, [NoArgs EXCEPT !.key = k])
         IN \/ /\ KeysByKey(k) = {}
               /\ Step(req, t, Finish(r, HTTPException(404, "API key not found")))
            \/ \E i \in KeysByKey(k) :
                 Step(req, t, [r EXCEPT !.pc = "inc", !.doc = apikeys[i]])
    /\ UNCHANGED <<users, apikeys, now, nextToken, nextKey>>

\* Mutant: the count is written back from the document read earlier
\* ({"$set": {"usage_count": doc["usage_count"] + 1}}).
IncUsageFromRead(ks, doc) ==
    [i \in DOMAIN ks |->
        IF ks[i]._id = doc._id
        THEN [ks[i] EXCEPT !.usage_count = doc.usage_count + 1, !.updated_at = now]
        ELSE ks[i]]

\* update_one({"_id": doc["_id"]}, {"$inc": {"usage_count": 1},
\*                                  "$set": {"updated_at": now}})
IncUsage(ks, doc) ==
    [i \in DOMAIN ks |->
        IF ks[i]._id = doc._id
        THEN [ks[i] EXCEPT !.usage_count = @ + 1, !.updated_at = now]
        ELSE ks[i]]

\* main.py 207-208
UseInc(t) ==
    /\ Ready
    /\ req[t].op = "use" /\ req[t].pc = "inc"
    /\ apikeys' = IncUsage(apikeys, req[t].doc)
    /\ Step(Observe(req, IncUsage(apikeys, req[t].doc)), t, Finish(req[t], Ok(<<>>)))
    /\ UNCHANGED <<users, now, nextToken, nextKey>>

\* --------------------------------------------------------- stats
StatsAuth(t) ==
    /\ Ready
    /\ Free(t)
    /\ \E h \in AuthHeaders : \E a \in require_auth(h) :
         Authenticated(t, h, a, [NewReq("stats", h, NoArgs) EXCEPT
                                    !.pc = "count", !.user = IdOnly(a.user)])
    /\ UNCHANGED <<users, apikeys, now, nextToken, nextKey>>

\* Mutant: the count query has no filter on user_id.
CountDocumentsAll(uid) == Len(apikeys)

\* db["apikey"].count_documents({"user_id": uid})
CountDocuments(uid) == Len(SelectSeq(apikeys, LAMBDA k : k.user_id = uid))

\* Mutant: the pipeline has no $match stage.
AggregateUnmatched(uid) ==
    IF apikeys = <<>> THEN <<>>
    ELSE <<[total |-> SumSeq([i \in DOMAIN apikeys |-> apikeys[i].usage_count])]>>

\* db["apikey"].aggregate([{"$match": {"user_id": uid}},
\*                         {"$group": {"_id": None, "total": {"$sum": "$usage_count"}}}])
\* : one group when a document matches, no group otherwise.
Aggregate(uid) ==
    LET matched == SelectSeq(apikeys, LAMBDA k : k.user_id = uid)
    IN IF matched = <<>> THEN <<>>
       ELSE <<[total |-> SumSeq([i \in DOMAIN matched |-> matched[i].usage_count])]>>

\* main.py 213
StatsCount(t) ==
    /\ Ready
    /\ req[t].op = "stats" /\ req[t].pc = "count"
    /\ Step(req, t, [req[t] EXCEPT !.pc = "agg",
                                     !.total_keys = CountDocuments(req[t].user.id),
                                     !.seen = Totals(apikeys, req[t].user.id)])
    /\ UNCHANGED <<users, apikeys, now, nextToken, nextKey>>

\* main.py 214-220
StatsAggregate(t) ==
    /\ Ready
    /\ req[t].op = "stats" /\ req[t].pc = "agg"
    /\ LET agg == Aggregate(req[t].user.id)
           total_usage == IF agg # <<>> THEN agg[1].total ELSE 0
       IN Step(req, t, Finish(req[t], Ok([total_keys |-> req[t].total_keys,
                                        total_usage |-> total_usage])))
    /\ UNCHANGED <<users, apikeys, now, nextToken, nextKey>>

\* ------------------------------------------------------- specifications
\* A step of an account endpoint (register, login, logout, me, update_me)
\* on one of the threads T.
AccountStep(T) ==
    \/ \E t \in T : RegisterCheck(t)
    \/ \E t \in T : RegisterInsert(t)
    \/ \E t \in T : LoginFind(t)
    \/ \E t \in T : LoginPush(t)
    \/ \E t \in T : LogoutAuth(t)
    \/ \E t \in T : LogoutPull(t)
    \/ \E t \in T : Me(t)
    \/ \E t \in T : UpdateAuth(t)
    \/ \E t \in T : UpdateCheckUsername(t)
    \/ \E t \in T : UpdateCheckEmail(t)
    \/ \E t \in T : UpdateSet(t)

\* A step of an api key endpoint (create_api_key, use, stats).
KeyStep(T) ==
    \/ \E t \in T : CreateKeyAuth(t)
    \/ \E t \in T : CreateKeyInsert(t)
    \/ \E t \in T : UseFind(t)
    \/ \E t \in T : UseInc(t)
    \/ \E t \in T : StatsAuth(t)
    \/ \E t \in T : StatsCount(t)
    \/ \E t \in T : StatsAggregate(t)

\* The account endpoints served concurrently, from the empty store.  No
\* handler reads a timestamp, so the clock stands still here and ticks in
\* ClockSpec.
Next == Deliver \/ AccountStep(Threads)

Spec == Init /\ [][Next]_vars

\* The account endpoints served one request at a time while the clock ticks.
ClockNext == Deliver \/ Tick \/ AccountStep({1})

ClockSpec == Init /\ [][ClockNext]_vars

\* Two registered users, each logged in once (a state Spec reaches).
KeyInit ==
    /\ users = << [_id |-> ObjectId([hex |-> 1]), username |-> "alice", email |-> "a@x.com",
                   password_hash |-> hash_password(Pw1, <<"0", "a">>),
                   active_tokens |-> <<TokenStr(1)>>, created_at |-> 0, updated_at |-> 0],
                  [_id |-> ObjectId([hex |-> 2]), username |-> "bob", email |-> "b@x.com",
                   password_hash |-> hash_password(Pw1, <<"0", "a">>),
                   active_tokens |-> <<TokenStr(2)>>, created_at |-> 0, updated_at |-> 0] >>
    /\ apikeys = <<>>
    /\ now = 0
    /\ nextToken = 3
    /\ nextKey = 1
    /\ req = [t \in Threads |-> Idle]
    /\ out = NoOut

\* The api key endpoints served concurrently for those two users.
KeyNext == Deliver \/ KeyStep(Threads)

KeySpec == KeyInit /\ [][KeyNext]_vars

\* One registered user, whose password and salt are any of those above.
HashInit ==
    /\ \E p \in HashPasswords, salt \in HashSalts :
         users = << [_id |-> ObjectId([hex |-> 1]), username |-> "alice", email |-> "a@x.com",
                     password_hash |-> hash_password(p, salt),
                     active_tokens |-> <<>>, created_at |-> 0, updated_at |-> 0] >>
    /\ apikeys = <<>>
    /\ now = 0
    /\ nextToken = 1
    /\ nextKey = 1
    /\ req = [t \in Threads |-> Idle]
    /\ out = NoOut

\* Logins of that user, one at a time, with any password a client may send.
HashNext == Deliver \/ LoginFindOf(1, HashCandidates) \/ LoginPush(1)

HashSpec == HashInit /\ [][HashNext]_vars

\* Every endpoint, from the empty store: thread 1 serves the account
\* endpoints while the other threads serve the api key endpoints, so that a
\* key request and an account request interleave between their store calls.
AllNext == Deliver \/ AccountStep({1}) \/ KeyStep(Threads \ {1})

AllSpec == Init /\ [][AllNext]_vars

\* ------------------------------------------------------------- properties
AllTokens == {TokenStr(n) : n \in 1..MaxTokens}

\* The _ids of the user documents of collection us that hold token k.
HoldersOf(us, k) == {us[i]._id : i \in {j \in DOMAIN us : k \in Range(us[j].active_tokens)}}

\* Token k has been handed out by a login.
Issued(k) == k[2] < nextToken

\* This step is the $pull of a logout request that presented token k.
LogoutOf(k) ==
    \E t \in Threads : /\ req[t].op = "logout" /\ req[t].pc = "pull"
                       /\ req[t].auth.cred = k
                       /\ out'.thread = t

\* This step ends a successful login that returns token k.
LoginIssuing(k) ==
    /\ out'.op = "login" /\ out'.resp.status = 200
    /\ out'.resp.body.token = k

\* This step is require_auth (alone, or before GET /me) deciding on "Bearer k".
AuthDecides(k) ==
    /\ out'.op \in {"me", "require_auth"}
    /\ out'.auth = [scheme |-> "Bearer", cred |-> k]

TokenLifecycleStep ==
    \A k \in AllTokens :
      /\ LoginIssuing(k) =>
            /\ HoldersOf(users', k) = {out'.user.id}
            /\ ObjectId(out'.resp.body.id) = out'.user.id
            /\ ~Issued(k)
      /\ (HoldersOf(users, k) # {} /\ ~LogoutOf(k)) =>
            HoldersOf(users', k) = HoldersOf(users, k)
      /\ LogoutOf(k) => HoldersOf(users', k) = {}
      /\ (Issued(k) /\ HoldersOf(users, k) = {}) => HoldersOf(users', k) = {}
      /\ AuthDecides(k) =>
            IF HoldersOf(users, k) # {}
            THEN /\ out'.resp.status = 200
                 /\ HoldersOf(users, k) = {ObjectId(out'.resp.body.id)}
            ELSE out'.resp = HTTPException(401, "Invalid token")

\* C1: the token a login returns authenticates as that user in every state
\* until a logout presents it: the login leaves it held by exactly the user
\* logged in, no step but the $pull of a logout with that token takes it
\* from its holder, that $pull leaves it held by nobody, a token once handed
\* out and held by nobody is never held again, and require_auth answers 200
\* with the holder for a held token and 401 for any other.
C1_TokenValidUntilLogout == [][TokenLifecycleStep]_vars

\* C1 witness: a token that was handed out and logged out is presented and
\* rejected with 401.
C1_Witness ==
    /\ out.op = "require_auth" /\ out.auth.scheme = "Bearer"
    /\ out.resp = HTTPException(401, "Invalid token")
    /\ Issued(out.auth.cred)
    /\ HoldersOf(users, out.auth.cred) = {}

\* C2: a successful login or logout changes the holder of no token other
\* than the one it issues or revokes: a second login leaves the first token
\* valid, and a logout with t1 leaves t2 authenticating as the same user.
C2_OtherTokensSurvive ==
    [][(out'.op \in {"login", "logout"} /\ out'.resp.status = 200) =>
         LET k == IF out'.op = "login" THEN out'.resp.body.token ELSE out'.auth.cred
         IN \A k2 \in AllTokens \ {k} : HoldersOf(users', k2) = HoldersOf(users, k2)]_vars

\* C2 witness: a logout has succeeded and the same user still holds another
\* token.
C2_Witness ==
    /\ out.op = "logout" /\ out.resp.status = 200
    /\ \E k2 \in AllTokens \ {out.auth.cred} :
         HoldersOf(users, k2) = {ObjectId(out.user.id)}

UniqueOf(us) ==
    \A i, j \in DOMAIN us :
        i # j => us[i].username # us[j].username /\ us[i].email # us[j].email

\* C3 as claimed: in every reachable state no two users share a username or
\* an email, whatever the interleaving of register and update_me.
C3_UniqueUsers == UniqueOf(users)

\* C3 amended: a register or update_me write made with no other request's
\* username/email write since the writer's first uniqueness check keeps
\* usernames and emails unique.
C3_UniqueUnlessStale == [][(UniqueOf(users) /\ ~out'.stale) => UniqueOf(users')]_vars

\* C3 witness: an update_me whose check was still current has renamed a user
\* while two users exist.
C3_Witness ==
    /\ out.op = "update_me" /\ out.resp.status = 200 /\ ~out.stale
    /\ out.args.username # None
    /\ Len(users) = 2
    /\ \E i \in DOMAIN users : users[i]._id = ObjectId(out.user.id)
                               /\ users[i].username = out.args.username
    /\ UniqueOf(users)

\* Some user of collection us has username u or email e.
Taken(us, u, e) == \E i \in DOMAIN us : us[i].username = u \/ us[i].email = e

RegisterStep ==
    \A t \in Threads :
      /\ (req[t].op = "idle" /\ (req'[t].op = "register"
                                 \/ (out'.thread = t /\ out'.op = "register"))) =>
            LET a == IF req'[t].op = "register" THEN req'[t].args ELSE out'.args
            IN /\ users' = users
               /\ IF Taken(users, a.username, a.email)
                  THEN /\ out'.thread = t
                       /\ out'.resp = HTTPException(400, "Username or email already exists")
                  ELSE /\ req'[t].pc = "insert_user"
                       /\ out' = NoOut
      /\ (req[t].op = "register" /\ req'[t].op = "idle") =>
            /\ out'.thread = t /\ out'.resp.status = 200
            /\ Len(users') = Len(users) + 1
            /\ SubSeq(users', 1, Len(users)) = users
            /\ users'[Len(users')].username = req[t].args.username
            /\ users'[Len(users')].email = req[t].args.email
            /\ users'[Len(users')].active_tokens = <<>>

\* C4: a register request arriving when some user has its username or its
\* email is answered 400 and inserts nothing; one arriving when both are
\* unused goes on to insert exactly one user, with the request's username
\* and email and an empty active_tokens, and is answered 200.
C4_RegisterConflictOrCreate == [][RegisterStep]_vars

\* C4 witness: a register was refused for its username alone (its email is
\* held by nobody).
C4_Witness ==
    /\ out.op = "register" /\ out.resp.status = 400
    /\ \E i \in DOMAIN users : users[i].username = out.args.username
    /\ \A i \in DOMAIN users : users[i].email # out.args.email

\* The number of use requests whose $inc on the key with this _id is this step.
IncsOf(id) ==
    Cardinality({t \in Threads : /\ req[t].op = "use" /\ req[t].pc = "inc"
                                 /\ req[t].doc._id = id
                                 /\ out'.thread = t})

\* C5: every use request that found its key is answered 200 and its
\* increment raises the key's current usage_count by exactly one, whatever
\* other use requests on the same key did between its lookup and its
\* increment; no other step changes a usage_count.  So N interleaved uses
\* of a key leave its usage_count N higher.
C5_NoLostIncrement ==
    [][/\ Len(apikeys') >= Len(apikeys)
       /\ \A i \in DOMAIN apikeys :
            apikeys'[i].usage_count = apikeys[i].usage_count + IncsOf(apikeys[i]._id)
       /\ \A t \in Threads :
            (req[t].op = "use" /\ req[t].pc = "inc" /\ out'.thread = t) =>
                /\ out'.resp.status = 200
                /\ \E i \in DOMAIN apikeys : apikeys[i]._id = req[t].doc._id]_vars

\* C5 witness: a use request is answered 200 after incrementing a key that
\* another use request had incremented since this one looked it up.
C5_Witness ==
    /\ out.op = "use" /\ out.resp.status = 200
    /\ out.doc.usage_count = 0
    /\ \E i \in DOMAIN apikeys : apikeys[i]._id = out.doc._id /\ apikeys[i].usage_count = 2

\* This step is the arrival of a use request at thread t.
UseArrives(t) ==
    req[t].op = "idle" /\ (req'[t].op = "use" \/ (out'.thread = t /\ out'.op = "use"))

\* C6: a use request whose key string is the key of no stored ApiKey is
\* answered 404 "API key not found" and changes no ApiKey and no User; a
\* request whose key string is stored is not answered 404.
C6_UnknownKeyNotFound ==
    [][\A t \in Threads : UseArrives(t) =>
         LET k == IF req'[t].op = "use" THEN req'[t].args.key ELSE out'.args.key
         IN IF \A i \in DOMAIN apikeys : apikeys[i].key # k
            THEN /\ out'.thread = t
                 /\ out'.resp = HTTPException(404, "API key not found")
                 /\ apikeys' = apikeys /\ users' = users
            ELSE /\ req'[t].op = "use" /\ req'[t].pc = "inc"
                 /\ req'[t].doc.key = k]_vars

\* C6 witness: a use request was answered 404 while api keys exist.
C6_Witness ==
    /\ out.op = "use" /\ out.resp.status = 404
    /\ apikeys # <<>>
    /\ \A i \in DOMAIN apikeys : apikeys[i].key # out.args.key

\* C7: the count query of stats returns the number of ApiKey records whose
\* user_id is the caller, the aggregation returns the sum of usage_count
\* over exactly those records (0 when there are none), and stats answers 200
\* with the two values.
C7_StatsTotals ==
    [][\A t \in Threads :
         /\ (req[t].op = "stats" /\ req[t].pc = "count" /\ req'[t].pc # "count") =>
               /\ req'[t].pc = "agg"
               /\ req'[t].total_keys = Cardinality(OwnedBy(apikeys, req[t].user.id))
         /\ (req[t].op = "stats" /\ req[t].pc = "agg" /\ out'.thread = t) =>
               /\ out'.resp.status = 200
               /\ out'.resp.body.total_keys = req[t].total_keys
               /\ out'.resp.body.total_usage =
                     UsageOver(apikeys, OwnedBy(apikeys, req[t].user.id))]_vars

\* C7 witness: stats answered one key and one use for a caller while another
\* user's key has been used too.
C7_Witness ==
    /\ out.op = "stats" /\ out.resp.status = 200
    /\ out.resp.body = [total_keys |-> 1, total_usage |-> 1]
    /\ \E i \in DOMAIN apikeys : apikeys[i].user_id # out.user.id
                                 /\ apikeys[i].usage_count > 0

\* This step is the arrival of a login request at thread t.
LoginArrives(t) ==
    req[t].op = "idle" /\ (req'[t].op = "login" \/ (out'.thread = t /\ out'.op = "login"))

\* C8: a login whose email no user has and a login with a password other
\* than a registered one are both answered with the same response, 401
\* "Invalid credentials"; every refused login leaves users and api keys as
\* they were, and so adds no token.
C8_LoginFailuresAlike ==
    [][\A t \in Threads : LoginArrives(t) =>
         LET a == IF req'[t].op = "login" THEN req'[t].args ELSE out'.args
         IN /\ users' = users /\ apikeys' = apikeys
            /\ ((\A i \in DOMAIN users : users[i].email # a.email)
                \/ a.password \notin RegPasswords) =>
                  /\ out'.thread = t
                  /\ out'.resp = HTTPException(401, "Invalid credentials")]_vars

\* C8 witness: a login with a registered email and a wrong password was
\* refused.
C8_Witness ==
    /\ out.op = "login" /\ out.resp.status = 401
    /\ out.args.password \notin RegPasswords
    /\ \E i \in DOMAIN users : users[i].email = out.args.email

\* The index of the user document of us with this _id (as a string).
Caller(us, uid) == CHOOSE i \in DOMAIN us : us[i]._id = ObjectId(uid)

UpdateStep ==
    \A t \in Threads :
      \* the $set
      /\ (req[t].op = "update_me" /\ req[t].pc = "set" /\ out'.thread = t) =>
            LET c == Caller(users, req[t].user.id)
                a == req[t].args
            IN /\ out'.resp.status = 200
               /\ DOMAIN users' = DOMAIN users
               /\ users'[c].username = IF a.username # None THEN a.username
                                       ELSE users[c].username
               /\ users'[c].email = IF a.email # None THEN a.email ELSE users[c].email
               /\ users'[c].password_hash = users[c].password_hash
               /\ users'[c].active_tokens = users[c].active_tokens
               /\ users'[c]._id = users[c]._id
               /\ \A j \in DOMAIN users : j # c => users'[j] = users[j]
      \* the username check
      /\ (req[t].op = "update_me" /\ req[t].pc = "chk_username"
          /\ req'[t].pc # "chk_username") =>
            LET c == Caller(users, req[t].user.id)
            IN IF \E j \in DOMAIN users : j # c /\ users[j].username = req[t].args.username
               THEN /\ out'.thread = t
                    /\ out'.resp = HTTPException(400, "Username already taken")
               ELSE out'.thread # t /\ req'[t].op = "update_me"
      \* the email check
      /\ (req[t].op = "update_me" /\ req[t].pc = "chk_email"
          /\ req'[t].pc # "chk_email") =>
            LET c == Caller(users, req[t].user.id)
            IN IF \E j \in DOMAIN users : j # c /\ users[j].email = req[t].args.email
               THEN /\ out'.thread = t
                    /\ out'.resp = HTTPException(400, "Email already taken")
               ELSE out'.thread # t /\ req'[t].op = "update_me"
      \* neither field supplied, and every refusal
      /\ (out'.thread = t /\ out'.op = "update_me"
          /\ (out'.resp.status # 200
              \/ (out'.args.username = None /\ out'.args.email = None))) =>
            users' = users
      /\ (req[t].op = "idle" /\ out'.thread = t /\ out'.op = "update_me") =>
            /\ out'.args.username = None /\ out'.args.email = None
            /\ out'.resp.status = 200

\* C9: the $set of update_me writes the supplied username and email to the
\* caller's record and leaves its other username/email, its password_hash,
\* its active_tokens and every other record as they were; the username
\* (email) check refuses, with 400 naming that field, only when a user
\* other than the caller holds the value, so the caller's own current value
\* passes; a request supplying neither field is answered 200 and changes
\* nothing, as does every refused request.
C9_UpdateFrame == [][UpdateStep]_vars

\* C9 witness: an update_me that supplied only a username succeeded while
\* another user exists, and the caller now has that username.
C9_Witness ==
    /\ out.op = "update_me" /\ out.resp.status = 200
    /\ out.args.username # None /\ out.args.email = None
    /\ Len(users) = 2
    /\ users[Caller(users, out.user.id)].username = out.args.username
    /\ users[Caller(users, out.user.id)].email # None

\* This step ends an update_me request of thread t with 200.
UpdateDone(t) == out'.thread = t /\ out'.op = "update_me" /\ out'.resp.status = 200

\* C10 as claimed: an update_me that leaves the caller's username and email
\* at their values leaves the caller's updated_at unchanged.
C10_RefreshOnlyOnChange ==
    [][\A t \in Threads : UpdateDone(t) =>
         LET c == Caller(users, out'.user.id)
         IN (users'[c].username = users[c].username /\ users'[c].email = users[c].email)
               => users'[c].updated_at = users[c].updated_at]_vars

\* C10 amended: update_me sets the caller's updated_at to the time of the
\* write when the request supplies a username or an email, whether or not
\* the value differs from the current one, and leaves it unchanged when the
\* request supplies neither.
C10_RefreshWhenSupplied ==
    [][\A t \in Threads : UpdateDone(t) =>
         LET c == Caller(users, out'.user.id)
         IN IF out'.args.username # None \/ out'.args.email # None
            THEN users'[c].updated_at = now
            ELSE users'[c].updated_at = users[c].updated_at]_vars

\* C10 witness: an update_me that supplied a field succeeded after the clock
\* moved on from the caller's registration, and refreshed updated_at.
C10_Witness ==
    /\ out.op = "update_me" /\ out.resp.status = 200
    /\ out.args.username # None
    /\ LET c == Caller(users, out.user.id)
       IN users[c].created_at < now /\ users[c].updated_at = now

\* C11 as claimed: every step that changes a User record (a login's $push, a
\* logout's $pull, an update_me's $set) leaves that record's updated_at at
\* the time of the step, and every step that changes an ApiKey record (a
\* use's $inc) leaves that key's updated_at at the time of the step.
C11_MutationRefreshes ==
    [][/\ \A i \in DOMAIN users :
            users'[i] # users[i] => users'[i].updated_at = now'
       /\ \A i \in DOMAIN apikeys :
            apikeys'[i] # apikeys[i] => apikeys'[i].updated_at = now']_vars

\* C12: in every step of every endpoint (register, login, logout, me,
\* update_me, create_api_key, use, stats) other than the $pull of a logout
\* that presented token k, a user record that holds k still holds it after
\* the step, and require_auth then still accepts "Bearer k" and returns that
\* user and no other.
C12_TokenOutlivesOtherOps ==
    [][\A k \in AllTokens : \A i \in DOMAIN users :
         (k \in Range(users[i].active_tokens) /\ ~LogoutOf(k)) =>
            /\ i \in DOMAIN users'
            /\ users'[i]._id = users[i]._id
            /\ k \in Range(users'[i].active_tokens)
            /\ \A a \in require_auth([scheme |-> "Bearer", cred |-> k])' :
                  a.resp = NoResp /\ a.user.id = Str(users[i]._id)]_vars

\* C12 witness: an update_me presenting a token has renamed its caller, an
\* api key has been created and used, and the caller still holds the token.
C12_Witness ==
    /\ out.op = "update_me" /\ out.resp.status = 200
    /\ out.args.username # None
    /\ \E i \in DOMAIN users : /\ users[i]._id = ObjectId(out.user.id)
                               /\ users[i].username = out.args.username
                               /\ out.auth.cred \in Range(users[i].active_tokens)
    /\ \E j \in DOMAIN apikeys : apikeys[j].usage_count > 0

\* C13: a step that adds an ApiKey adds it with usage_count 0; every stored
\* usage_count is non-negative; no step removes a key or lowers its
\* usage_count; and a step that changes a key's usage_count is the end of a
\* use request for that key answered 200, and raises it by exactly one.
C13_UsageMonotone ==
    [][/\ \A i \in DOMAIN apikeys :
            /\ apikeys[i].usage_count >= 0
            /\ i \in DOMAIN apikeys'
            /\ apikeys'[i].key = apikeys[i].key
            /\ apikeys'[i].usage_count >= apikeys[i].usage_count
            /\ apikeys'[i].usage_count # apikeys[i].usage_count =>
                  /\ out'.op = "use" /\ out'.resp.status = 200
                  /\ out'.args.key = apikeys[i].key
                  /\ apikeys'[i].usage_count = apikeys[i].usage_count + 1
       /\ \A i \in DOMAIN apikeys' \ DOMAIN apikeys :
            apikeys'[i].usage_count = 0]_vars

\* C13 witness: a use has raised one key to usage_count 2 while a key
\* of the other user, created earlier, still has usage_count 0.
C13_Witness ==
    /\ out.op = "use" /\ out.resp.status = 200
    /\ \E i, j \in DOMAIN apikeys :
         /\ i > j
         /\ apikeys[i].key = out.args.key /\ apikeys[i].usage_count = 2
         /\ apikeys[j].usage_count = 0 /\ apikeys[j].user_id # apikeys[i].user_id

\* This step is the insert of thread t's create_api_key request.
KeyInserted(t) ==
    req[t].op = "create_api_key" /\ req[t].pc = "insert_key" /\ out'.thread = t

\* This step is require_auth accepting thread t's create_api_key request.
KeyRequestAccepted(t) == req[t].op = "idle" /\ req'[t].op = "create_api_key"

\* C14 as claimed: create_api_key adds exactly one ApiKey, owned by the
\* caller, with usage_count 0 and with the supplied label, or without one
\* with the username stored for the caller at the time of creation, and
\* changes no other key.
C14_LabelIsCurrentUsername ==
    [][\A t \in Threads : KeyInserted(t) =>
         LET new == apikeys'[Len(apikeys')]
             c == Caller(users, req[t].user.id)
         IN /\ out'.resp.status = 200
            /\ Len(apikeys') = Len(apikeys) + 1
            /\ SubSeq(apikeys', 1, Len(apikeys)) = apikeys
            /\ new.user_id = Str(users[c]._id)
            /\ new.usage_count = 0
            /\ new.label = IF Supplied(req[t].args.username)
                           THEN req[t].args.username
                           ELSE users[c].username]_vars

\* C14 amended: create_api_key adds exactly one ApiKey, owned by the caller,
\* with usage_count 0 and with the supplied non-empty label, or without one
\* (None or the empty string) with the username that require_auth read for
\* the caller when it accepted the request, which is the username stored at
\* that moment; it changes no other key.
C14_LabelIsAuthenticatedUsername ==
    [][\A t \in Threads :
         /\ KeyRequestAccepted(t) =>
               \E i \in DOMAIN users :
                  /\ req'[t].auth.cred \in Range(users[i].active_tokens)
                  /\ req'[t].user.id = Str(users[i]._id)
                  /\ req'[t].user.username = users[i].username
                  /\ apikeys' = apikeys
         /\ KeyInserted(t) =>
               LET new == apikeys'[Len(apikeys')]
               IN /\ out'.resp.status = 200
                  /\ Len(apikeys') = Len(apikeys) + 1
                  /\ SubSeq(apikeys', 1, Len(apikeys)) = apikeys
                  /\ new.user_id = req[t].user.id
                  /\ new.usage_count = 0
                  /\ new.label = IF req[t].args.username \notin {None, ""}
                                 THEN req[t].args.username
                                 ELSE req[t].user.username]_vars

\* C14 witness: a key created without a label carries the username its
\* caller had when the request was authenticated, and the caller has been
\* renamed by an update_me since.
C14_Witness ==
    /\ out.op = "create_api_key" /\ out.resp.status = 200
    /\ out.args.username = None
    /\ apikeys[Len(apikeys)].label = out.user.username
    /\ users[Caller(users, out.user.id)].username # out.user.username

\* This step belongs to a login or a logout request of thread t.
SessionStep(t) ==
    \/ req[t].op \in {"login", "logout"} /\ req'[t] # req[t]
    \/ req[t].op = "idle" /\ req'[t].op \in {"login", "logout"}
    \/ out'.thread = t /\ out'.op \in {"login", "logout"}

\* C15: no step of a login or a logout, and no step that writes a user
\* record, changes an ApiKey; no step of any endpoint removes or re-keys an
\* ApiKey; and a use request, which carries no Authorization header, that
\* presents a stored key goes on to increment that key by one and is
\* answered 200, whatever tokens the key's owner holds.
C15_KeysIndependentOfSessions ==
    [][/\ \A t \in Threads : SessionStep(t) => apikeys' = apikeys
       /\ users' # users => apikeys' = apikeys
       /\ \A i \in DOMAIN apikeys :
            /\ i \in DOMAIN apikeys'
            /\ apikeys'[i]._id = apikeys[i]._id
            /\ apikeys'[i].key = apikeys[i].key
            /\ apikeys'[i].user_id = apikeys[i].user_id
       /\ \A t \in Threads :
            /\ (UseArrives(t) /\ \E i \in DOMAIN apikeys : apikeys[i].key = req'[t].args.key
                                                           \/ apikeys[i].key = out'.args.key) =>
                  /\ req'[t].op = "use" /\ req'[t].pc = "inc"
                  /\ req'[t].auth = NoHeader
            /\ (req[t].op = "use" /\ req[t].pc = "inc" /\ out'.thread = t) =>
                  /\ out'.resp.status = 200
                  /\ \E i \in DOMAIN apikeys :
                       /\ apikeys[i].key = req[t].args.key
                       /\ apikeys'[i].usage_count = apikeys[i].usage_count + 1]_vars

\* C15 witness: a use of a key was answered 200 and counted while the key's
\* owner, who had logged in to create it, holds no token at all.
C15_Witness ==
    /\ out.op = "use" /\ out.resp.status = 200 /\ out.auth = NoHeader
    /\ \E i \in DOMAIN apikeys :
         /\ apikeys[i].key = out.args.key /\ apikeys[i].usage_count > 0
         /\ \E u \in DOMAIN users : /\ Str(users[u]._id) = apikeys[i].user_id
                                    /\ users[u].active_tokens = <<>>

\* C16: a login request for a registered email passes verify_password
\* exactly when its password is the one the stored hash was made from,
\* whatever the salt: verify_password(p', hash_password(p, salt)) is
\* (p' = p); a login that passes is answered 200 with a token, any other is
\* answered 401.
C16_VerifyRoundTrip ==
    [][\A t \in Threads :
         /\ LoginArrives(t) =>
               LET a == IF req'[t].op = "login" THEN req'[t].args ELSE out'.args
               IN \A i \in DOMAIN users : users[i].email = a.email =>
                    \A p \in HashPasswords, salt \in HashSalts :
                       users[i].password_hash = hash_password(p, salt) =>
                          /\ verify_password(a.password, hash_password(p, salt))
                                = (a.password = p)
                          /\ (req'[t].op = "login" /\ req'[t].pc = "push")
                                = (a.password = p)
                          /\ (out'.thread = t /\ out'.resp.status = 401)
                                = (a.password # p)
         /\ (req[t].op = "login" /\ req[t].pc = "push" /\ out'.thread = t) =>
               /\ out'.resp.status = 200
               /\ out'.resp.body.token \in Range(users'[1].active_tokens)]_vars

\* C16 witness: a login with a password that holds the separator "$" was
\* answered 200, and the password's one-character-shorter prefix cannot be
\* the registered one.
C16_Witness ==
    /\ out.op = "login" /\ out.resp.status = 200
    /\ \E i \in DOMAIN out.args.password : out.args.password[i] = "$"
    /\ users[1].password_hash = hash_password(out.args.password, <<"a", "b">>)
    /\ ~verify_password(SubSeq(out.args.password, 1, MinPwLen - 1), users[1].password_hash)

\* C17: the $pull of a logout request that passed require_auth with token k
\* is answered 200 whether or not k is still in the list: it leaves k held
\* by nobody, takes nothing but k from the caller's active_tokens, leaves
\* every other user as it was, and changes nothing at all when another
\* logout has already removed k.
C17_RevokeIdempotent ==
    [][\A t \in Threads :
         (req[t].op = "logout" /\ req[t].pc = "pull" /\ out'.thread = t) =>
            LET k == req[t].auth.cred
                c == Caller(users, req[t].user.id)
            IN /\ out'.op = "logout" /\ out'.resp = Ok(<<>>)
               /\ DOMAIN users' = DOMAIN users
               /\ \A i \in DOMAIN users : k \notin Range(users'[i].active_tokens)
               /\ users'[c].active_tokens =
                     SelectSeq(users[c].active_tokens, LAMBDA x : x # k)
               /\ \A i \in DOMAIN users : i # c => users'[i] = users[i]
               /\ (\A i \in DOMAIN users : k \notin Range(users[i].active_tokens))
                     => users' = users]_vars

\* C17 witness: two logout requests presenting the same token both passed
\* require_auth; one has removed the token and been answered 200, the other
\* is about to remove it again, and the user still holds another token.
C17_Witness ==
    /\ out.op = "logout" /\ out.resp.status = 200
    /\ \E u \in Threads :
         /\ u # out.thread
         /\ req[u].op = "logout" /\ req[u].pc = "pull"
         /\ req[u].auth = out.auth
         /\ req[u].user.id = out.user.id
    /\ HoldersOf(users, out.auth.cred) = {}
    /\ users[Caller(users, out.user.id)].active_tokens # <<>>

\* Some user of us other than the one at index c has username u or email e.
TakenByOther(us, c, u, e) ==
    \E j \in DOMAIN us : j # c /\ (us[j].username = u \/ us[j].email = e)

\* C18: the write of a register request that passed its existence check
\* inserts its user and is answered 200 without looking again, and so does
\* the $set of an update_me that passed its checks: when another request
\* has meanwhile written the same username or email, the write leaves two
\* User records sharing that field.
C18_WriteDoesNotRecheck ==
    [][\A t \in Threads :
         /\ (req[t].op = "register" /\ req[t].pc = "insert_user" /\ out'.thread = t) =>
               LET a == req[t].args
               IN /\ out'.resp.status = 200
                  /\ Len(users') = Len(users) + 1
                  /\ users'[Len(users')].username = a.username
                  /\ users'[Len(users')].email = a.email
                  /\ Taken(users, a.username, a.email) =>
                        (out'.stale /\ ~UniqueOf(users'))
         /\ (req[t].op = "update_me" /\ req[t].pc = "set" /\ out'.thread = t) =>
               LET a == req[t].args
                   c == Caller(users, req[t].user.id)
               IN /\ out'.resp.status = 200
                  /\ a.username # None => users'[c].username = a.username
                  /\ a.email # None => users'[c].email = a.email
                  /\ TakenByOther(users, c, a.username, a.email) =>
                        (out'.stale /\ ~UniqueOf(users'))]_vars

\* C18 witness: two register requests with the same username and different
\* emails have both been answered 200, and both users are stored.
C18_Witness ==
    /\ out.op = "register" /\ out.resp.status = 200 /\ out.stale
    /\ Len(users) = 2
    /\ users[1].username = users[2].username
    /\ users[1].email # users[2].email
    /\ users[2].username = out.args.username

\* This step is a uniqueness check of thread t's update_me request.
UpdateChecks(t) ==
    /\ req[t].op = "update_me" /\ req[t].pc \in {"chk_username", "chk_email"}
    /\ (out'.thread = t \/ req'[t].pc # req[t].pc)

\* C19: an update_me request writes nothing before its $set: its
\* require_auth and its username and email checks leave every user record
\* as it was, and a request answered 400 is answered by one of its checks,
\* so it never reached the $set; in particular, when the email check
\* refuses a request whose username had passed, the caller's username is
\* not the request's unless it already was.
C19_ConflictWritesNothing ==
    [][\A t \in Threads :
         /\ UpdateChecks(t) => users' = users
         /\ (req[t].op = "idle" /\ req'[t].op = "update_me") => users' = users
         /\ (out'.thread = t /\ out'.op = "update_me" /\ out'.resp.status = 400) =>
               /\ req[t].op = "update_me"
               /\ req[t].pc = IF out'.resp.detail = "Username already taken"
                              THEN "chk_username" ELSE "chk_email"
               /\ out'.resp.detail \in {"Username already taken", "Email already taken"}
               /\ LET c == Caller(users, out'.user.id)
                  IN /\ users'[c] = users[c]
                     /\ users'[c].username = out'.args.username =>
                           users[c].username = out'.args.username]_vars

\* C19 witness: an update_me supplying a username nobody has and an email
\* another user has was answered 400 for the email, and the caller does not
\* have the new username.
C19_Witness ==
    /\ out.op = "update_me" /\ out.resp = HTTPException(400, "Email already taken")
    /\ out.args.username # None
    /\ \A i \in DOMAIN users : users[i].username # out.args.username
    /\ \E j \in DOMAIN users : /\ users[j]._id # ObjectId(out.user.id)
                               /\ users[j].email = out.args.email

\* This step is the aggregation query of thread t's stats request.
StatsAnswered(t) == req[t].op = "stats" /\ req[t].pc = "agg" /\ out'.thread = t

\* C20 as claimed: the pair (total_keys, total_usage) a stats call returns
\* is the key count and usage sum of the caller in one state of the store
\* that existed between the call's count query and its aggregation query.
\* Keys are never removed and no usage_count falls, so such a state has the
\* key count of the count query and is the latest state with that count.
C20_StatsSnapshot ==
    [][\A t \in Threads : StatsAnswered(t) => out'.resp.body = req[t].seen]_vars

\* C20 amended: total_keys is the caller's key count in a state that existed
\* during the call (the one at the count query) and total_usage the caller's
\* usage sum in a state that existed during the call (the one at the
\* aggregation query); the two are one state, and the pair its totals,
\* whenever no key of the caller is inserted between the two queries.
C20_StatsEachFromSomeState ==
    [][\A t \in Threads : StatsAnswered(t) =>
         LET body == out'.resp.body
             current == Totals(apikeys, req[t].user.id)
         IN /\ out'.resp.status = 200
            /\ body.total_keys = req[t].seen.total_keys
            /\ body.total_usage = current.total_usage
            /\ body.total_keys <= current.total_keys
            /\ body.total_usage >= req[t].seen.total_usage
            /\ body.total_keys = current.total_keys =>
                  (body = current /\ body = req[t].seen)]_vars

\* C20 witness: a stats call answered no keys and one use, because the
\* caller's first key was created and used between its two queries.
C20_Witness ==
    /\ out.op = "stats" /\ out.resp.status = 200
    /\ out.resp.body = [total_keys |-> 0, total_usage |-> 1]
    /\ Totals(apikeys, out.user.id).total_keys > 0
=============================================================================
